---- MODULE Spec2Model ----
(***************************************************************************)
(* Frame transform pipeline of faceover-videofeed.py (FaceFeedApp).        *)
(*                                                                         *)
(* One render cycle is FaceFeedApp.update_frame: capture, mirror, manual   *)
(* zoom/pan crop, content-area computation, aspect-fill crop, resize,      *)
(* publish on the label.  The control setters change the fields the next   *)
(* cycle reads.                                                            *)
(*                                                                         *)
(* Numbers.  zoom_level, pan_x and pan_y are Python floats that the        *)
(* control panel sets to slider_value / 10.0.  They are kept here as the   *)
(* integer number of tenths (zoom_level = 25 is 2.5), and every float      *)
(* expression of the source is evaluated exactly on rationals and then     *)
(* truncated the way int() truncates.  For the frame sizes, zoom levels    *)
(* and targets enumerated below the IEEE double results of the source      *)
(* expressions equal the exact ones; for larger operands the float         *)
(* product w * (1.0 / zoom) can fall just short of an integer quotient     *)
(* (49 * (1.0 / 4.9) truncates to 9), which is outside the enumerated      *)
(* inputs.                                                                 *)
(*                                                                         *)
(* Pixels.  A frame is identified by the capture it came from; an array    *)
(* is a view of a frame: which capture, whether mirrored, and the window   *)
(* of columns [x0, x1) and rows [y0, y1) it shows.  A published buffer is  *)
(* the view that was resampled, the size it was resampled to and the       *)
(* channel order.  Two buffers are pixel-identical when these agree.       *)
(***************************************************************************)
EXTENDS Integers, FiniteSets, TLC

\* Largest width and height of the small frames enumerated for one cycle.
MaxDim == 4
\* Largest content width and height of the small targets enumerated for one
\* cycle.
MaxTarget == 4
\* Consecutive failed captures that are counted (the count saturates).
MaxMisses == 2
\* Deepest nesting of update_frame calls that is followed.
MaxNesting == 2

\* zoom_level and the pans are counted in 1/Scale (slider value / 10.0).
Scale == 10
DEFAULT_WINDOW_SIZE == 250
DefaultBorderWidth == 5
MinWindowSize == 10

VARIABLES app, cycle, misses, pending, in_cycle
vars == <<app, cycle, misses, pending, in_cycle>>

\* The two executions that are compared with each other; every other
\* specification runs execution 1 alone.
Runs == {1, 2}

(***************************************************************************)
(* Python and numpy primitives                                             *)
(***************************************************************************)
Max(a, b) == IF a >= b THEN a ELSE b
Min(a, b) == IF a <= b THEN a ELSE b

Abs(a) == IF a >= 0 THEN a ELSE -a

\* int(n / d) for d # 0: truncation toward zero.
IntTrunc(n, d) ==
    LET q == Abs(n) \div Abs(d)
    IN  IF (n >= 0) = (d > 0) THEN q ELSE -q

\* a / b > c / d on floats, for b # 0 and d # 0.
RatioGreater(a, b, c, d) ==
    IF (b > 0) = (d > 0) THEN a * d > c * b ELSE a * d < c * b

\* A numpy slice bound on an axis of length n: a negative bound counts from
\* the end, and both are clipped to the axis.
NormIdx(i, n) == IF i < 0 THEN Max(0, i + n) ELSE Min(i, n)

Width(view) == view.x1 - view.x0
Height(view) == view.y1 - view.y0

\* view[ys:ye, xs:xe]
Slice(view, ys, ye, xs, xe) ==
    LET w == Width(view)
        h == Height(view)
        xa == NormIdx(xs, w)
        xb == Max(xa, NormIdx(xe, w))
        ya == NormIdx(ys, h)
        yb == Max(ya, NormIdx(ye, h))
    IN  [view EXCEPT !.x0 = view.x0 + xa, !.x1 = view.x0 + xb,
                     !.y0 = view.y0 + ya, !.y1 = view.y0 + yb]

\* The array capture.read() returns for a captured frame.
ArrayOf(frame) ==
    [id |-> frame.id, mirrored |-> FALSE,
     x0 |-> 0, x1 |-> frame.w, y0 |-> 0, y1 |-> frame.h]

\* cv2.flip(frame, 1): mirror about the vertical axis; the shape is kept and
\* the view's columns are from here on counted in the mirrored image.
flip(view) == [view EXCEPT !.mirrored = ~view.mirrored]

NoArray == [id |-> 0, mirrored |-> FALSE, x0 |-> 0, x1 |-> 0, y0 |-> 0, y1 |-> 0]
NoFrame == [id |-> 0, w |-> 0, h |-> 0]
\* The label before the first setPixmap.
NoPixmap == [src |-> NoArray, w |-> 0, h |-> 0, order |-> "none"]

(***************************************************************************)
(* Stage 2 of update_frame: manual digital zoom / crop and pan             *)
(***************************************************************************)
\* Plausible slip: multiplying by the zoom level instead of its inverse.
CropDimTimesZoom(dim, zoom) == IntTrunc(dim * zoom, Scale)

\* crop_factor = 1.0 / zoom_level; crop_w = int(w * crop_factor)
CropDim(dim, zoom) == IntTrunc(dim * Scale, zoom)

\* max_offset_x = (w - crop_w) // 2
MaxOffset(dim, crop) == (dim - crop) \div 2

\* Plausible slip: the pan offset rounded to the nearest integer the way
\* round() does (a tie goes to the even neighbour) instead of cut by int().
PanStartRounded(max_offset, pan) ==
    LET n == pan * max_offset
        q == n \div Scale
        r == n % Scale
    IN  max_offset + (IF 2 * r < Scale THEN q
                      ELSE IF 2 * r > Scale THEN q + 1
                      ELSE IF q % 2 = 0 THEN q ELSE q + 1)

\* start_x = max_offset_x + int(pan_x * max_offset_x)
PanStart(max_offset, pan) == max_offset + IntTrunc(pan * max_offset, Scale)

\* start_x = max(0, min(start_x, w - crop_w))
ClampStart(start, dim, crop) == Max(0, Min(start, dim - crop))

NoZoom ==
    [applied |-> FALSE, w |-> 0, h |-> 0, crop_w |-> 0, crop_h |-> 0,
     max_offset_x |-> 0, max_offset_y |-> 0, start_x |-> 0, start_y |-> 0]

\* Plausible slip: the stage runs at every zoom level and the crop factor
\* 1.0 / zoom_level falls a hair short of its exact value.
ZoomPanAlways(frame, zoom_level, pan_x, pan_y) ==
    LET w == Width(frame)
        h == Height(frame)
        crop_w == IntTrunc(w * Scale - 1, zoom_level)
        crop_h == IntTrunc(h * Scale - 1, zoom_level)
        max_offset_x == MaxOffset(w, crop_w)
        max_offset_y == MaxOffset(h, crop_h)
        start_x == ClampStart(PanStart(max_offset_x, pan_x), w, crop_w)
        start_y == ClampStart(PanStart(max_offset_y, pan_y), h, crop_h)
    IN  [trace |-> [applied |-> TRUE, w |-> w, h |-> h,
                    crop_w |-> crop_w, crop_h |-> crop_h,
                    max_offset_x |-> max_offset_x, max_offset_y |-> max_offset_y,
                    start_x |-> start_x, start_y |-> start_y],
         frame |-> Slice(frame, start_y, start_y + crop_h, start_x, start_x + crop_w)]

\* The stage: the values it computes (trace) and the frame it passes on.
ZoomPan(frame, zoom_level, pan_x, pan_y) ==
    IF zoom_level > Scale
    THEN LET w == Width(frame)
             h == Height(frame)
             crop_w == CropDim(w, zoom_level)
             crop_h == CropDim(h, zoom_level)
             max_offset_x == MaxOffset(w, crop_w)
             max_offset_y == MaxOffset(h, crop_h)
             start_x == ClampStart(PanStart(max_offset_x, pan_x), w, crop_w)
             start_y == ClampStart(PanStart(max_offset_y, pan_y), h, crop_h)
         IN  [trace |-> [applied |-> TRUE, w |-> w, h |-> h,
                         crop_w |-> crop_w, crop_h |-> crop_h,
                         max_offset_x |-> max_offset_x, max_offset_y |-> max_offset_y,
                         start_x |-> start_x, start_y |-> start_y],
              frame |-> Slice(frame, start_y, start_y + crop_h,
                              start_x, start_x + crop_w)]
    ELSE [trace |-> [NoZoom EXCEPT !.w = Width(frame), !.h = Height(frame)],
          frame |-> frame]

(***************************************************************************)
(* Stage 3: the content area inside the border                             *)
(***************************************************************************)
\* Plausible slip: the floor at 1 is left out.
ContentDimUnclamped(window, border_width) == window - (border_width * 2)

\* content_w = max(1, self.window_w - (self.border_width * 2))
ContentDim(window, border_width) == Max(1, window - (border_width * 2))

(***************************************************************************)
(* Stage 4: the aspect-fill crop                                           *)
(***************************************************************************)
\* Plausible slip: the surplus is not halved, so the crop is taken twice.
FillCropAmountWhole(src, new_src) == src - new_src

\* Plausible slip: the half surplus rounded up instead of down.
FillCropAmountRoundedUp(src, new_src) == (src - new_src + 1) \div 2

\* crop_amount_y = (src_h - new_src_h) // 2
FillCropAmount(src, new_src) == (src - new_src) \div 2

NoFill ==
    [raised |-> FALSE, case |-> "none", src_w |-> 0, src_h |-> 0, new_src |-> 0,
     crop_start_x |-> 0, crop_end_x |-> 0, crop_start_y |-> 0, crop_end_y |-> 0]

\* src_ar = src_w / src_h raises ZeroDivisionError on a frame without rows,
\* target_ar = content_w / content_h on a content area without rows.
AspectFill(frame, content_w, content_h) ==
    LET src_w == Width(frame)
        src_h == Height(frame)
        base == [NoFill EXCEPT !.src_w = src_w, !.src_h = src_h,
                               !.crop_end_x = src_w, !.crop_end_y = src_h]
    IN  IF src_h = 0 \/ content_h = 0
        THEN [trace |-> [base EXCEPT !.raised = TRUE, !.case = "ZeroDivisionError"],
              frame |-> NoArray]
        ELSE IF RatioGreater(content_w, content_h, src_w, src_h)
        THEN \* target is wider: new_src_h = int(src_w / target_ar)
             LET new_src_h == IntTrunc(src_w * content_h, content_w)
                 crop_amount_y == FillCropAmount(src_h, new_src_h)
             IN  [trace |-> [base EXCEPT !.case = "vertical", !.new_src = new_src_h,
                                         !.crop_start_y = crop_amount_y,
                                         !.crop_end_y = src_h - crop_amount_y],
                  frame |-> Slice(frame, crop_amount_y, src_h - crop_amount_y, 0, src_w)]
        ELSE IF RatioGreater(src_w, src_h, content_w, content_h)
        THEN \* target is taller: new_src_w = int(src_h * target_ar)
             LET new_src_w == IntTrunc(src_h * content_w, content_h)
                 crop_amount_x == FillCropAmount(src_w, new_src_w)
             IN  [trace |-> [base EXCEPT !.case = "horizontal", !.new_src = new_src_w,
                                         !.crop_start_x = crop_amount_x,
                                         !.crop_end_x = src_w - crop_amount_x],
                  frame |-> Slice(frame, 0, src_h, crop_amount_x, src_w - crop_amount_x)]
        ELSE [trace |-> [base EXCEPT !.case = "full"],
              frame |-> Slice(frame, 0, src_h, 0, src_w)]

(***************************************************************************)
(* Stages 5 and 6: resize, channel swap, publish                           *)
(***************************************************************************)
\* cv2.resize(final_cropped_frame, (content_w, content_h)): cv2.error on an
\* empty source or an empty size, otherwise an array of exactly the requested
\* size.
ResizeFails(final_cropped_frame, content_w, content_h) ==
    \/ Width(final_cropped_frame) = 0 \/ Height(final_cropped_frame) = 0
    \/ content_w <= 0 \/ content_h <= 0

\* cv2.cvtColor(canvas, cv2.COLOR_BGR2RGB) and the QImage / QPixmap made of it:
\* w and h are the resized array's shape.
PixmapOf(final_cropped_frame, content_w, content_h) ==
    [src |-> final_cropped_frame, w |-> content_w, h |-> content_h, order |-> "RGB"]

\* The fields one cycle reads.
Params(self) ==
    [zoom_level |-> self.zoom_level, pan_x |-> self.pan_x, pan_y |-> self.pan_y,
     window_w |-> self.window_w, window_h |-> self.window_h,
     border_width |-> self.border_width]

NoParams ==
    [zoom_level |-> 0, pan_x |-> 0, pan_y |-> 0,
     window_w |-> 0, window_h |-> 0, border_width |-> 0]

NoCycle ==
    [status |-> "none", shown_before |-> NoPixmap, capture |-> NoFrame,
     params |-> NoParams, zoom |-> NoZoom, zoomed |-> NoArray,
     content_w |-> 0, content_h |-> 0, fill |-> NoFill, canvas |-> NoPixmap]

\* Everything one call of update_frame computes (shown_before is the pixmap
\* on the label when the call starts, zoomed the frame stage 2 passes on),
\* and how it ends:
\*   "no_frame"           capture.read() returned ret = False, early return
\*   "ZeroDivisionError"  the exception leaves update_frame
\*   "resize_error"       cv2.error caught, "Resize error" printed, return
\*   "published"          setPixmap was called with canvas
Cycle(self, capture) ==
    IF ~capture.ret
    THEN [NoCycle EXCEPT !.status = "no_frame", !.shown_before = self.pixmap]
    ELSE LET zoomed == ZoomPan(flip(ArrayOf(capture.frame)),
                               self.zoom_level, self.pan_x, self.pan_y)
             content_w == ContentDim(self.window_w, self.border_width)
             content_h == ContentDim(self.window_h, self.border_width)
             filled == AspectFill(zoomed.frame, content_w, content_h)
             started == [NoCycle EXCEPT !.shown_before = self.pixmap,
                                        !.capture = capture.frame,
                                        !.params = Params(self),
                                        !.zoom = zoomed.trace,
                                        !.zoomed = zoomed.frame,
                                        !.content_w = content_w,
                                        !.content_h = content_h,
                                        !.fill = filled.trace]
         IN  IF filled.trace.raised
             THEN [started EXCEPT !.status = "ZeroDivisionError"]
             ELSE IF ResizeFails(filled.frame, content_w, content_h)
             THEN [started EXCEPT !.status = "resize_error"]
             ELSE [started EXCEPT !.status = "published",
                                  !.canvas = PixmapOf(filled.frame, content_w, content_h)]

\* Plausible slip: the label is cleared when no frame could be read.
update_frame_blanking(self, capture) ==
    LET c == Cycle(self, capture)
    IN  IF c.status = "published" THEN [self EXCEPT !.pixmap = c.canvas]
        ELSE IF c.status = "no_frame" THEN [self EXCEPT !.pixmap = NoPixmap]
        ELSE self

\* Plausible slip: the result is memoised per captured frame, so a frame that
\* is already on display is not rendered again.
update_frame_memoised(self, capture) ==
    LET c == Cycle(self, capture)
    IN  IF c.status = "published" /\ self.pixmap.src.id # capture.frame.id
        THEN [self EXCEPT !.pixmap = c.canvas]
        ELSE self

\* FaceFeedApp.update_frame as a change of the object: the label's pixmap is
\* replaced when, and only when, the cycle reaches setPixmap.
update_frame(self, capture) ==
    LET c == Cycle(self, capture)
    IN  IF c.status = "published" THEN [self EXCEPT !.pixmap = c.canvas] ELSE self

(***************************************************************************)
(* Control setters                                                         *)
(***************************************************************************)
\* setFixedSize of the widget and the label, and the label's stylesheet.
_apply_size_and_mask(self) ==
    [self EXCEPT !.fixed_size = <<self.window_w, self.window_h>>,
                 !.label_border = self.border_width]

set_window_width(self, width) ==
    _apply_size_and_mask([self EXCEPT !.window_w = Max(MinWindowSize, width)])

set_window_height(self, height) ==
    _apply_size_and_mask([self EXCEPT !.window_h = Max(MinWindowSize, height)])

set_border_width(self, width) ==
    _apply_size_and_mask([self EXCEPT !.border_width = width])

set_zoom_level(self, zoom) == [self EXCEPT !.zoom_level = Max(Scale, zoom)]

set_pan_x(self, pan_x) == [self EXCEPT !.pan_x = pan_x]

set_pan_y(self, pan_y) == [self EXCEPT !.pan_y = pan_y]

\* FaceFeedApp.__init__
NewApp ==
    _apply_size_and_mask(
        [border_width |-> DefaultBorderWidth,
         window_w |-> DEFAULT_WINDOW_SIZE, window_h |-> DEFAULT_WINDOW_SIZE,
         zoom_level |-> Scale, pan_x |-> 0, pan_y |-> 0,
         fixed_size |-> <<0, 0>>, label_border |-> 0,
         pixmap |-> NoPixmap])


(***************************************************************************)
(* Events.  inputs names the argument values and the capture outcomes a    *)
(* specification enumerates; r is the execution the event belongs to.      *)
(***************************************************************************)
NoCapture == [ret |-> FALSE, frame |-> NoFrame]
Captured(frame) == [ret |-> TRUE, frame |-> frame]

\* Plausible slip: update_frame lets the event loop run before it returns
\* (a processEvents call in the cycle), so handlers are dispatched inside it.
EventLoopRunsNested(r) == in_cycle[r] >= 0

\* The one thread of the application is either inside a handler or in the
\* event loop of app.exec().  update_frame makes no call that enters the
\* loop, so the loop dispatches the next event (a slider's valueChanged, the
\* timer's timeout) only when no update_frame call is in progress.
EventLoopRuns(r) == in_cycle[r] = 0

SetWindowWidth(r, inputs) ==
    \E width \in inputs.widths :
        /\ EventLoopRuns(r)
        /\ app' = [app EXCEPT ![r] = set_window_width(app[r], width)]
        /\ UNCHANGED <<cycle, misses, pending, in_cycle>>

SetWindowHeight(r, inputs) ==
    \E height \in inputs.heights :
        /\ EventLoopRuns(r)
        /\ app' = [app EXCEPT ![r] = set_window_height(app[r], height)]
        /\ UNCHANGED <<cycle, misses, pending, in_cycle>>

SetBorderWidth(r, inputs) ==
    \E width \in inputs.borders :
        /\ EventLoopRuns(r)
        /\ app' = [app EXCEPT ![r] = set_border_width(app[r], width)]
        /\ UNCHANGED <<cycle, misses, pending, in_cycle>>

SetZoomLevel(r, inputs) ==
    \E zoom \in inputs.zooms :
        /\ EventLoopRuns(r)
        /\ app' = [app EXCEPT ![r] = set_zoom_level(app[r], zoom)]
        /\ UNCHANGED <<cycle, misses, pending, in_cycle>>

SetPanX(r, inputs) ==
    \E pan_x \in inputs.pans_x :
        /\ EventLoopRuns(r)
        /\ app' = [app EXCEPT ![r] = set_pan_x(app[r], pan_x)]
        /\ UNCHANGED <<cycle, misses, pending, in_cycle>>

SetPanY(r, inputs) ==
    \E pan_y \in inputs.pans_y :
        /\ EventLoopRuns(r)
        /\ app' = [app EXCEPT ![r] = set_pan_y(app[r], pan_y)]
        /\ UNCHANGED <<cycle, misses, pending, in_cycle>>

\* One update_frame call from its first line to its return: cycle keeps what
\* the call computed, misses counts the failed captures in a row.
TimeoutWith(r, capture) ==
    /\ app' = [app EXCEPT ![r] = update_frame(app[r], capture)]
    /\ cycle' = [cycle EXCEPT ![r] = Cycle(app[r], capture)]
    /\ misses' = [misses EXCEPT ![r] = IF capture.ret THEN 0
                                       ELSE Min(MaxMisses, misses[r] + 1)]

\* The timer's interval elapsing, the event loop delivering the timeout and
\* update_frame running to its end, taken as one step.
Timeout(r, inputs) ==
    \E capture \in inputs.captures :
        /\ EventLoopRuns(r)
        /\ TimeoutWith(r, capture)
        /\ UNCHANGED <<pending, in_cycle>>

\* The same, step by step.  The 30 ms interval of the QTimer elapses, at any
\* moment, also while a handler runs.  A QTimer has at most one timeout
\* outstanding: an interval that elapses before the previous timeout was
\* delivered is merged with it.
TimerExpires(r) ==
    /\ pending' = [pending EXCEPT ![r] = 1]
    /\ UNCHANGED <<app, cycle, misses, in_cycle>>

\* The event loop delivers the outstanding timeout: update_frame is entered.
BeginUpdateFrame(r) ==
    /\ EventLoopRuns(r)
    /\ pending[r] > 0
    /\ in_cycle[r] < MaxNesting
    /\ pending' = [pending EXCEPT ![r] = pending[r] - 1]
    /\ in_cycle' = [in_cycle EXCEPT ![r] = in_cycle[r] + 1]
    /\ UNCHANGED <<app, cycle, misses>>

\* update_frame returns, by any of its exits, having read one capture.
EndUpdateFrame(r, inputs) ==
    \E capture \in inputs.captures :
        /\ in_cycle[r] > 0
        /\ TimeoutWith(r, capture)
        /\ in_cycle' = [in_cycle EXCEPT ![r] = in_cycle[r] - 1]
        /\ UNCHANGED pending

(***************************************************************************)
(* Spec: one execution from construction, the controls and the timer       *)
(* acting in any order.                                                    *)
(***************************************************************************)
Frame(id, w, h) == [id |-> id, w |-> w, h |-> h]

SessionInputs ==
    [widths |-> {-3}, heights |-> {60}, borders |-> {7},
     zooms |-> {5, 20, 70}, pans_x |-> {10}, pans_y |-> {-5},
     captures |-> {NoCapture, Captured(Frame(1, 640, 480)), Captured(Frame(2, 3, 4))}]

Init ==
    /\ app = [r \in Runs |-> NewApp]
    /\ cycle = [r \in Runs |-> NoCycle]
    /\ misses = [r \in Runs |-> 0]
    /\ pending = [r \in Runs |-> 0]
    /\ in_cycle = [r \in Runs |-> 0]

Next ==
    \/ SetWindowWidth(1, SessionInputs)
    \/ SetWindowHeight(1, SessionInputs)
    \/ SetBorderWidth(1, SessionInputs)
    \/ SetZoomLevel(1, SessionInputs)
    \/ SetPanX(1, SessionInputs)
    \/ SetPanY(1, SessionInputs)
    \/ Timeout(1, SessionInputs)

Spec == Init /\ [][Next]_vars

(***************************************************************************)
(* SpecCycle: one update_frame call, from every parameter setting the      *)
(* setters can leave behind and for every captured frame, both drawn from  *)
(* the sets below.                                                         *)
(***************************************************************************)
CycleZooms == {10, 11, 15, 20, 30, 70}
\* Pans: the ends, the centre, the halves (whose offsets can end in .5) and
\* +-0.9 (whose offsets can end above .5).
CyclePans == {-10, -9, -5, 0, 5, 9, 10}
\* Window sizes whose content area, inside the default border, is 1 .. MaxTarget
\* (the smallest one collapses to 0 and is floored), and the sizes of the
\* documented examples: 240 x 240 and 300 x 100.
CycleWidths == {MinWindowSize + k : k \in 0 .. MaxTarget} \cup {250, 310}
CycleHeights == {MinWindowSize + k : k \in 0 .. MaxTarget} \cup {250, 110}
CycleFrames ==
    {Frame(1, w, h) : w \in 1 .. MaxDim, h \in 1 .. MaxDim}
        \cup {Frame(1, 1920, 1080), Frame(1, 640, 480)}

CycleInputs ==
    [widths |-> CycleWidths, heights |-> CycleHeights, borders |-> {DefaultBorderWidth},
     zooms |-> CycleZooms, pans_x |-> CyclePans, pans_y |-> CyclePans,
     captures |-> {Captured(f) : f \in CycleFrames}]

\* The objects a sequence of setter calls with these arguments leaves behind.
Configured(inputs) ==
    {set_pan_y(set_pan_x(set_zoom_level(set_border_width(set_window_height(
        set_window_width(NewApp, width), height), border), zoom), pan_x), pan_y) :
        width \in inputs.widths, height \in inputs.heights,
        border \in inputs.borders, zoom \in inputs.zooms,
        pan_x \in inputs.pans_x, pan_y \in inputs.pans_y}

InitCycle ==
    /\ \E self \in Configured(CycleInputs) :
           app = [r \in Runs |-> IF r = 1 THEN self ELSE NewApp]
    /\ cycle = [r \in Runs |-> NoCycle]
    /\ misses = [r \in Runs |-> 0]
    /\ pending = [r \in Runs |-> 0]
    /\ in_cycle = [r \in Runs |-> 0]

NextCycle == cycle[1].status = "none" /\ Timeout(1, CycleInputs)

SpecCycle == InitCycle /\ [][NextCycle]_vars

(***************************************************************************)
(* SpecTwin: two executions of the application side by side, each with     *)
(* its own history of setter calls and captured frames.                    *)
(***************************************************************************)
TwinInputs ==
    [widths |-> {DEFAULT_WINDOW_SIZE}, heights |-> {DEFAULT_WINDOW_SIZE},
     borders |-> {DefaultBorderWidth},
     zooms |-> {10, 20}, pans_x |-> {0, 10}, pans_y |-> {0},
     captures |-> {Captured(Frame(1, 4, 3)), Captured(Frame(2, 4, 3))}]

NextTwin ==
    \E r \in Runs :
        \/ SetWindowWidth(r, TwinInputs)
        \/ SetWindowHeight(r, TwinInputs)
        \/ SetBorderWidth(r, TwinInputs)
        \/ SetZoomLevel(r, TwinInputs)
        \/ SetPanX(r, TwinInputs)
        \/ SetPanY(r, TwinInputs)
        \/ Timeout(r, TwinInputs)

SpecTwin == Init /\ [][NextTwin]_vars

(***************************************************************************)
(* SpecTimer: one execution in which the timer's timeout is followed step  *)
(* by step: the interval elapsing, update_frame being entered, update_frame*)
(* returning, with the controls acting whenever the event loop runs.       *)
(***************************************************************************)
TimerInputs ==
    [widths |-> {DEFAULT_WINDOW_SIZE}, heights |-> {110},
     borders |-> {DefaultBorderWidth},
     zooms |-> {20}, pans_x |-> {10}, pans_y |-> {-5},
     captures |-> {NoCapture, Captured(Frame(1, 4, 3)), Captured(Frame(2, 4, 3))}]

NextTimer ==
    \/ SetWindowWidth(1, TimerInputs)
    \/ SetWindowHeight(1, TimerInputs)
    \/ SetBorderWidth(1, TimerInputs)
    \/ SetZoomLevel(1, TimerInputs)
    \/ SetPanX(1, TimerInputs)
    \/ SetPanY(1, TimerInputs)
    \/ TimerExpires(1)
    \/ BeginUpdateFrame(1)
    \/ EndUpdateFrame(1, TimerInputs)

SpecTimer == Init /\ [][NextTimer]_vars

(***************************************************************************)
(* Properties of one cycle (SpecCycle)                                     *)
(***************************************************************************)
\* The cycle of execution 1 and what it read.
Last == cycle[1]
Captures == Last.status \in {"published", "resize_error", "ZeroDivisionError"}
PansInRange ==
    /\ Last.params.pan_x \in -Scale .. Scale
    /\ Last.params.pan_y \in -Scale .. Scale

\* C1: for every captured frame with width and height >= 1, every zoom
\* level >= 1.0, every pan in [-1, 1] and every content area >= 1 x 1, one
\* update_frame cycle publishes a buffer, and the buffer is exactly
\* content_w x content_h.
C1_EveryCyclePublishesContentSize ==
    ( /\ Captures
      /\ Last.capture.w >= 1 /\ Last.capture.h >= 1
      /\ Last.params.zoom_level >= Scale
      /\ PansInRange
      /\ Last.content_w >= 1 /\ Last.content_h >= 1 )
    => /\ Last.status = "published"
       /\ app[1].pixmap = Last.canvas
       /\ app[1].pixmap.w = Last.content_w
       /\ app[1].pixmap.h = Last.content_h

\* C2: with zoom_level > 1.0 and pans in [-1, 1] the crop rectangle
\* [start_x, start_x + crop_w) x [start_y, start_y + crop_h) lies inside the
\* source frame, and it is the window of the frame the stage passes on.
C2_CropInsideFrame ==
    (Captures /\ Last.params.zoom_level > Scale /\ PansInRange)
    => /\ Last.zoom.applied
       /\ Last.zoom.w = Last.capture.w /\ Last.zoom.h = Last.capture.h
       /\ 0 <= Last.zoom.start_x
       /\ Last.zoom.start_x + Last.zoom.crop_w <= Last.zoom.w
       /\ 0 <= Last.zoom.start_y
       /\ Last.zoom.start_y + Last.zoom.crop_h <= Last.zoom.h
       /\ Last.zoomed.x0 = Last.zoom.start_x
       /\ Last.zoomed.x1 = Last.zoom.start_x + Last.zoom.crop_w
       /\ Last.zoomed.y0 = Last.zoom.start_y
       /\ Last.zoomed.y1 = Last.zoom.start_y + Last.zoom.crop_h

\* A zoomed cycle panned fully right and down whose non-empty crop touches the
\* right and the bottom edge of the frame.
C2_Witness ==
    /\ Last.status = "published"
    /\ Last.params.zoom_level > Scale
    /\ Last.params.pan_x = Scale /\ Last.params.pan_y = Scale
    /\ Last.zoom.start_x > 0 /\ Last.zoom.start_y > 0
    /\ Last.zoom.crop_w >= 1 /\ Last.zoom.crop_h >= 1
    /\ Last.zoom.start_x + Last.zoom.crop_w = Last.zoom.w
    /\ Last.zoom.start_y + Last.zoom.crop_h = Last.zoom.h

C4_PanExtremesReachEdges ==
    (Captures /\ Last.zoom.applied /\ Last.zoom.crop_w >= 1 /\ Last.zoom.crop_h >= 1)
    => /\ Last.params.pan_x = Scale
            => Last.zoom.start_x = Last.zoom.w - Last.zoom.crop_w
       /\ Last.params.pan_x = -Scale => Last.zoom.start_x = 0
       /\ Last.params.pan_x = 0 => Last.zoom.start_x = Last.zoom.max_offset_x
       /\ Last.params.pan_y = Scale
            => Last.zoom.start_y = Last.zoom.h - Last.zoom.crop_h
       /\ Last.params.pan_y = -Scale => Last.zoom.start_y = 0
       /\ Last.params.pan_y = 0 => Last.zoom.start_y = Last.zoom.max_offset_y

\* C5: the zoom/pan stage never produces an empty frame: for every frame
\* with w, h >= 1 and every zoom_level > 1.0, crop_w >= 1 and crop_h >= 1.
C5_CropNeverEmpty ==
    (Captures /\ Last.zoom.applied /\ Last.zoom.w >= 1 /\ Last.zoom.h >= 1)
    => /\ Last.zoom.crop_w >= 1 /\ Last.zoom.crop_h >= 1
       /\ Width(Last.zoomed) >= 1 /\ Height(Last.zoomed) >= 1

\* C9: with zoom_level <= 1.0 the zoom/pan stage is the identity for every
\* frame and every pan: the frame passed on to the aspect-fill stage is the
\* whole mirrored capture, same width, height and pixels.
C9_NoZoomIsIdentity ==
    (Captures /\ Last.params.zoom_level <= Scale)
    => /\ ~Last.zoom.applied
       /\ Last.zoomed = flip(ArrayOf(Last.capture))
       /\ Last.fill.src_w = Last.capture.w
       /\ Last.fill.src_h = Last.capture.h

\* A published cycle at zoom 1.0 with both pans off centre.
C9_Witness ==
    /\ Last.status = "published"
    /\ Last.params.zoom_level = Scale
    /\ Last.params.pan_x # 0 /\ Last.params.pan_y # 0
    /\ Last.capture.w > 1 /\ Last.capture.h > 1
    /\ Width(Last.canvas.src) >= 1

(***************************************************************************)
(* Properties of a session (Spec)                                          *)
(***************************************************************************)
SessionFrames == {c.frame : c \in {k \in SessionInputs.captures : k.ret}}

\* C6: no failure inside a render cycle escapes the cycle: every failure
\* mode, a zero-area crop included, ends the cycle with no new buffer
\* published and the previous buffer still on the label, never with an
\* error raised out of update_frame.
C6_NoFailureEscapesCycle ==
    /\ Last.status # "ZeroDivisionError"
    /\ Last.status \in {"no_frame", "resize_error"}
         => app[1].pixmap = Last.shown_before

\* C7: a tick whose capture returns no frame publishes nothing: the pixmap
\* on the label and every parameter are what they were before the tick; and
\* a tick that captures a frame after any number of failed ones runs a
\* normal cycle: it goes through the stages with the current parameters and
\* shows its own frame when it reaches setPixmap.
C7_NoFrameKeepsDisplay ==
    [][ /\ TimeoutWith(1, NoCapture)
           => /\ app'[1] = app[1]
              /\ cycle'[1].status = "no_frame"
              /\ cycle'[1].shown_before = app'[1].pixmap
        /\ \A frame \in SessionFrames :
              (misses[1] > 0 /\ TimeoutWith(1, Captured(frame)))
              => /\ cycle'[1].status \in {"published", "resize_error",
                                          "ZeroDivisionError"}
                 /\ cycle'[1].capture = frame
                 /\ cycle'[1].params = Params(app[1])
                 /\ Params(app'[1]) = Params(app[1])
                 /\ cycle'[1].status = "published"
                      => app'[1].pixmap.src.id = frame.id
      ]_vars

\* Two failed captures in a row while a buffer is on the label.
C7_Witness ==
    /\ Last.status = "no_frame"
    /\ misses[1] = 2
    /\ app[1].pixmap # NoPixmap
    /\ app[1].pixmap = Last.shown_before

\* C8: after any sequence of set_window_width, set_window_height and
\* set_border_width calls the content area handed to the aspect-fill stage is
\* content_w = max(1, window_w - 2 * border_width) and
\* content_h = max(1, window_h - 2 * border_width): no dimension below 1
\* reaches the stage, the target never makes the cycle raise, and a buffer
\* that is published has exactly these dimensions.
C8_ContentAreaFlooredAtOne ==
    Captures
    => LET inner_w == Last.params.window_w - 2 * Last.params.border_width
           inner_h == Last.params.window_h - 2 * Last.params.border_width
       IN  /\ Last.content_w = (IF inner_w >= 1 THEN inner_w ELSE 1)
           /\ Last.content_h = (IF inner_h >= 1 THEN inner_h ELSE 1)
           /\ Last.content_w >= 1 /\ Last.content_h >= 1
           /\ Last.status = "ZeroDivisionError" => Last.fill.src_h = 0
           /\ Last.status = "published"
                => /\ app[1].pixmap.w = Last.content_w
                   /\ app[1].pixmap.h = Last.content_h

\* The collapsed target: set_window_width(-3) and set_window_height(60) leave
\* a 10 x 60 window whose content area inside the 5 pixel border is 0 x 50;
\* it is rendered as 1 x 50.
C8_Witness ==
    /\ Last.status = "published"
    /\ Last.params.window_w - 2 * Last.params.border_width = 0
    /\ Last.params.window_h - 2 * Last.params.border_width = 50
    /\ Last.capture.w = 640
    /\ app[1].pixmap.w = 1 /\ app[1].pixmap.h = 50

(***************************************************************************)
(* Two executions compared (SpecTwin)                                      *)
(***************************************************************************)
\* Both executions have just published from the same captured frame under
\* the same parameter values.
TwinSameInputs ==
    /\ cycle[1].status = "published" /\ cycle[2].status = "published"
    /\ cycle[1].capture = cycle[2].capture
    /\ cycle[1].params = cycle[2].params

\* C10: a cycle's output is determined by the frame captured in the cycle
\* and the parameter values in force when it starts: two executions with
\* different histories of setter calls and earlier frames, but the same
\* current parameters and captured frame, show the same buffer; a setter call
\* changes no buffer already published, and the next cycle reads the values
\* the setters left.
C10_OutputDependsOnFrameAndParams ==
    /\ [](TwinSameInputs => app[1].pixmap = app[2].pixmap)
    /\ [][\A r \in Runs :
            /\ Params(app'[r]) # Params(app[r])
                 => (app'[r].pixmap = app[r].pixmap /\ cycle'[r] = cycle[r])
            /\ cycle'[r] # cycle[r]
                 => /\ cycle'[r].params = Params(app[r])
                    /\ cycle'[r].shown_before = app[r].pixmap
            /\ app'[r].pixmap # app[r].pixmap
                 => (cycle'[r].status = "published"
                     /\ app'[r].pixmap = cycle'[r].canvas)
        ]_vars

\* The two executions show the same zoomed and panned buffer of the same
\* frame, one after showing another picture than the other did before.
C10_Witness ==
    /\ TwinSameInputs
    /\ cycle[1].params.zoom_level = 20 /\ cycle[1].params.pan_x = 10
    /\ cycle[1].shown_before # cycle[2].shown_before
    /\ cycle[1].shown_before # NoPixmap /\ cycle[2].shown_before # NoPixmap
    /\ cycle[1].shown_before.src.id = cycle[1].capture.id
    /\ app[1].pixmap = app[2].pixmap

(***************************************************************************)
(* The pan offset of the zoom/pan stage (SpecCycle)                        *)
(***************************************************************************)
\* start is one of the integers nearest to max_offset + pan * max_offset
\* (either neighbour when the offset ends in .5).
NearestTo(start, max_offset, pan) ==
    2 * Abs(Scale * (start - max_offset) - pan * max_offset) <= Scale

\* C12 as the specification states it: with zoom_level > 1.0 and pans in
\* [-1, 1] the pan offset is rounded to the nearest integer, start =
\* max_offset + round(pan * max_offset), on both axes.
C12_PanOffsetIsRounded ==
    (Captures /\ Last.zoom.applied /\ PansInRange)
    => /\ NearestTo(Last.zoom.start_x, Last.zoom.max_offset_x, Last.params.pan_x)
       /\ NearestTo(Last.zoom.start_y, Last.zoom.max_offset_y, Last.params.pan_y)

\* pan * max_offset / Scale with its fraction dropped, whatever its sign.
TowardZero(pan, max_offset) ==
    IF pan * max_offset >= 0 THEN (pan * max_offset) \div Scale
    ELSE -((-(pan * max_offset)) \div Scale)

\* C12, amended: with zoom_level > 1.0 and pans in [-1, 1] the pan offset is
\* truncated toward zero, not rounded: the crop origin is max_offset plus the
\* integer part of pan * max_offset on both axes, the clamp that follows
\* leaves it as it is, and it never lies farther from the centre than the
\* rounded origin.
C12_PanOffsetIsTruncated ==
    LET mx == Last.zoom.max_offset_x
        my == Last.zoom.max_offset_y
    IN  (Captures /\ Last.zoom.applied /\ PansInRange)
        => /\ Last.zoom.start_x = mx + TowardZero(Last.params.pan_x, mx)
           /\ Last.zoom.start_y = my + TowardZero(Last.params.pan_y, my)
           /\ Abs(Last.zoom.start_x - mx)
                  <= Abs(PanStartRounded(mx, Last.params.pan_x) - mx)
           /\ Abs(Last.zoom.start_y - my)
                  <= Abs(PanStartRounded(my, Last.params.pan_y) - my)

\* A 1920 x 1080 frame at zoom 7.0 panned by +0.9 and -0.9: the offsets
\* 740.7 of 823 and -416.7 of 463 are cut to 740 and -416, so the crop starts
\* at column 1563 and row 47 where rounding gives 1564 and 46.
C12_Witness ==
    /\ Last.status = "published"
    /\ Last.capture.w = 1920 /\ Last.capture.h = 1080
    /\ Last.params.zoom_level = 70
    /\ Last.params.pan_x = 9 /\ Last.params.pan_y = -9
    /\ Last.zoom.max_offset_x = 823 /\ Last.zoom.max_offset_y = 463
    /\ Last.zoom.start_x = 1563 /\ Last.zoom.start_y = 47
    /\ PanStartRounded(823, 9) = 1564 /\ PanStartRounded(463, -9) = 46

(***************************************************************************)
(* The aspect mismatch left by the aspect-fill crop (SpecCycle)            *)
(***************************************************************************)
\* The aspect-fill crop of the last cycle ran on a source and a target whose
\* four sizes are all >= 1.
FillRan ==
    /\ Captures /\ ~Last.fill.raised
    /\ Last.fill.src_w >= 1 /\ Last.fill.src_h >= 1
    /\ Last.content_w >= 1 /\ Last.content_h >= 1

KeptRows == Last.fill.crop_end_y - Last.fill.crop_start_y
KeptCols == Last.fill.crop_end_x - Last.fill.crop_start_x

\* tw times the distance between the kept rows and the exact w * th / tw,
\* and th times the distance between the kept columns and the exact
\* h * tw / th.
RowMismatch == Abs(KeptRows * Last.content_w - Last.fill.src_w * Last.content_h)
ColMismatch == Abs(KeptCols * Last.content_h - Last.fill.src_h * Last.content_w)

\* C13 as the specification states it: after the aspect-fill crop the kept
\* extent along the cropped axis differs from the exact aspect-matching
\* extent by strictly less than one pixel, for every source and target with
\* all four sizes >= 1.
C13_MismatchBelowOnePixel ==
    FillRan
    => /\ Last.fill.case = "vertical" => RowMismatch < Last.content_w
       /\ Last.fill.case = "horizontal" => ColMismatch < Last.content_h

\* C13, amended: the kept extent along the cropped axis differs from the
\* exact aspect-matching extent by at most one pixel, and the other axis is
\* kept whole.
C13_MismatchAtMostOnePixel ==
    FillRan
    => /\ Last.fill.case = "vertical"
            => /\ RowMismatch <= Last.content_w
               /\ KeptCols = Last.fill.src_w
       /\ Last.fill.case = "horizontal"
            => /\ ColMismatch <= Last.content_h
               /\ KeptRows = Last.fill.src_h

\* A 2 x 2 frame into a 2 x 1 content area: the exact extent is 1 row, the
\* surplus of 1 row halves to 0, and both rows are kept: a mismatch of one
\* whole pixel.
C13_Witness ==
    /\ Last.status = "published"
    /\ ~Last.zoom.applied
    /\ Last.fill.src_w = 2 /\ Last.fill.src_h = 2
    /\ Last.content_w = 2 /\ Last.content_h = 1
    /\ Last.fill.case = "vertical" /\ Last.fill.new_src = 1
    /\ KeptRows = 2
    /\ RowMismatch = Last.content_w

====
